---- MODULE Spec2Model ----
(***************************************************************************)
(* Google Calendar MCP tool suite: the tool registry of the MCP route, the *)
(* handlers of src/lib/calendarTools and the calendar provider they call.  *)
(*                                                                         *)
(* One inbound tool call is one Dispatch action: the credential check of   *)
(* the route, parameter validation by the registered parameter shape, then *)
(* the whole handler with every provider call it awaits.  The provider's   *)
(* answer to each call is chosen nondeterministically (success, or a       *)
(* failure carrying a numeric code).                                       *)
(* Respond hands the finished call's outcome back to the caller, after     *)
(* which the next call can be dispatched.                                  *)
(***************************************************************************)
EXTENDS Integers, Sequences, FiniteSets, TLC

VARIABLES
    secret,   \* process.env.MCP_AUTH_SECRET of the deployment
    bearer,   \* the bearer token the finished call presented
    auth,     \* what verifyToken made of it: the auth info, or none
    events,   \* provider: the events of calendar "primary", by event id
    pc,       \* "idle" (no call in progress) or "done" (a call has finished)
    tool,     \* name under which the finished call was dispatched
    req,      \* its raw input record
    now,      \* the instant its handler read from the clock (0: it read none)
    calls,    \* the provider calls it issued, in order
    replies,  \* the provider's answer to each of them, in the same order
    result    \* its outcome: validation failure, returned envelope or thrown error

vars == <<secret, bearer, auth, events, pc, tool, req, now, calls, replies, result>>

(***************************************************************************)
(* Optional values.  An omitted (undefined) field is None, a supplied one  *)
(* is Some(v).                                                             *)
(***************************************************************************)
None == <<>>
Some(v) == <<v>>
IsSome(o) == o # None
Get(o) == o[1]

\* JavaScript truthiness of an optional string: undefined and "" are falsy.
TruthyStr(o) == IsSome(o) /\ Get(o) # ""

\* JavaScript truthiness of an optional array: every array, also [], is truthy.
TruthyArr(o) == IsSome(o)

\* `${x}` in a template literal.
Render(o) == IF IsSome(o) THEN Get(o) ELSE "undefined"

(***************************************************************************)
(* Times.  RFC3339 strings and the instant new Date(s) parses them to, in  *)
(* hours since 2025-01-01T00:00Z; anything else parses to an Invalid Date. *)
(***************************************************************************)
T09 == "2025-01-01T09:00:00Z"
T10 == "2025-01-01T10:00:00Z"

\* 365 days after T09, and one hour more than that.
T09NextYear == "2026-01-01T09:00:00Z"
T10NextYear == "2026-01-01T10:00:00Z"

NaN == -1

DateParse(s) ==
    CASE s = T09 -> 9
      [] s = T10 -> 10
      [] s = T09NextYear -> 9 + 365 * 24
      [] s = T10NextYear -> 10 + 365 * 24
      [] s = "2025-01-01T08:00:00.000Z" -> 8
      [] s = "2025-01-01T09:00:00.000Z" -> 9
      [] s = "2025-01-31T08:00:00.000Z" -> 728
      [] s = "2025-01-31T09:00:00.000Z" -> 729
      [] OTHER -> NaN

\* Date.prototype.toISOString of an instant.
ToISO(h) ==
    CASE h = 8 -> "2025-01-01T08:00:00.000Z"
      [] h = 9 -> "2025-01-01T09:00:00.000Z"
      [] h = 728 -> "2025-01-31T08:00:00.000Z"
      [] h = 729 -> "2025-01-31T09:00:00.000Z"
      [] OTHER -> "Invalid Date"

\* new Date(a) < new Date(b): false as soon as one side is an Invalid Date.
DateLess(a, b) ==
    /\ DateParse(a) # NaN
    /\ DateParse(b) # NaN
    /\ DateParse(a) < DateParse(b)

(***************************************************************************)
(* The provider.  It owns one calendar, "primary"; any other calendar id   *)
(* is unknown to it.  EventIds are the ids it can assign.                  *)
(***************************************************************************)
PrimaryCalendar == "primary"
EventIds == {"e1"}
NoEvent == [absent |-> TRUE]

\* Outcome of one provider call: "ok" or the numeric code of the failure.
FailureCodes == {400, 401, 403, 404, 500}

\* The zone calendars.get reports: a configured zone, or none.
CalendarZones == {Some("Europe/Paris"), None}


\* error.message of a provider failure.
ProviderMessage(code) ==
    CASE code = 400 -> "Bad Request"
      [] code = 401 -> "Invalid Credentials"
      [] code = 403 -> "Forbidden"
      [] code = 404 -> "Not Found"
      [] OTHER -> "Backend Error"

\* The provider knows the calendar a call names.
CalendarKnown(calendarId) == calendarId = PrimaryCalendar

\* The provider holds the event a call names.
EventHeld(store, calendarId, eventId) ==
    /\ CalendarKnown(calendarId)
    /\ eventId \in EventIds
    /\ store[eventId] # NoEvent

\* Ids the provider can still assign to a new event.
FreeIds(store) == {e \in EventIds : store[e] = NoEvent}

\* The event the provider stores for an insert request body.
StoredEvent(body) ==
    [summary |-> body.summary,
     description |-> body.description,
     start |-> body.start.dateTime,
     end |-> body.end.dateTime,
     attendees |-> IF "attendees" \in DOMAIN body THEN body.attendees ELSE <<>>]

\* Merge patch: a field of the body replaces the stored one, every other
\* field of the stored event keeps its value.
PatchedEvent(ev, body) ==
    [summary |-> IF "summary" \in DOMAIN body THEN body.summary ELSE ev.summary,
     description |-> IF "description" \in DOMAIN body
                     THEN Some(body.description) ELSE ev.description,
     start |-> IF "start" \in DOMAIN body THEN body.start.dateTime ELSE ev.start,
     end |-> IF "end" \in DOMAIN body THEN body.end.dateTime ELSE ev.end,
     attendees |-> IF "attendees" \in DOMAIN body THEN body.attendees ELSE ev.attendees]

(***************************************************************************)
(* Envelopes and outcomes.  A text is the sequence of its pieces.  A run   *)
(* of a handler is the provider calls it issued together with the          *)
(* provider's answers, its outcome and the provider's events afterwards.   *)
(***************************************************************************)
\* A text envelope whose one block has an empty text.
TextEnvelopeBlank(text) ==
    [kind |-> "returned", content |-> <<[type |-> "text", text |-> <<"">>]>>, data |-> None]

TextEnvelope(text) ==
    [kind |-> "returned", content |-> <<[type |-> "text", text |-> text]>>, data |-> None]

DataEnvelope(text, data) ==
    [kind |-> "returned", content |-> <<[type |-> "text", text |-> text]>>,
     data |-> Some(data)]

Thrown(text) == [kind |-> "thrown", content |-> <<[type |-> "text", text |-> text]>>, data |-> None]

Invalid(message) ==
    [kind |-> "invalid", content |-> <<[type |-> "text", text |-> <<message>>]>>, data |-> None]

NoResult == [kind |-> "none", content |-> <<>>, data |-> None]

\* The 401 response of the auth wrapper to a call without auth info.
Unauthenticated ==
    [kind |-> "unauthenticated",
     content |-> <<[type |-> "text", text |-> <<"No authorization provided">>]>>,
     data |-> None]

Run(c, p, r, store) == [calls |-> c, replies |-> p, result |-> r, events |-> store]

UnauthorizedText == <<"Unauthorized - check your Google Calendar permissions">>

\* The catch block with the 403 test left out of the unauthorized branch.
EventsCatchOnly401(code, notFoundText, failedPrefix) ==
    IF code = 404 THEN TextEnvelope(notFoundText)
    ELSE IF code = 401 THEN TextEnvelope(UnauthorizedText)
    ELSE Thrown(<<failedPrefix, ProviderMessage(code)>>)

\* The catch block returning the failure text where it should rethrow.
EventsCatchSwallowing(code, notFoundText, failedPrefix) ==
    IF code = 404 THEN TextEnvelope(notFoundText)
    ELSE IF code = 401 \/ code = 403 THEN TextEnvelope(UnauthorizedText)
    ELSE TextEnvelope(<<failedPrefix, ProviderMessage(code)>>)

\* The catch block without the 404 branch, as in calendars.ts and freebusy.ts.
EventsCatchWithout404(code, notFoundText, failedPrefix) ==
    IF code = 401 \/ code = 403 THEN TextEnvelope(UnauthorizedText)
    ELSE Thrown(<<failedPrefix, ProviderMessage(code)>>)

\* The catch block shared by the handlers of events.ts.
EventsCatch(code, notFoundText, failedPrefix) ==
    IF code = 404 THEN TextEnvelope(notFoundText)
    ELSE IF code = 401 \/ code = 403 THEN TextEnvelope(UnauthorizedText)
    ELSE Thrown(<<failedPrefix, ProviderMessage(code)>>)

(***************************************************************************)
(* Default resolution.                                                     *)
(***************************************************************************)
resolveCalendarId(calendarId) ==
    IF TruthyStr(calendarId) THEN Get(calendarId) ELSE "primary"

\* The lookup whose failure is swallowed: the zone silently defaults to "UTC".
resolveTimeZoneDefaulting(calendarId, timeZone) ==
    IF TruthyStr(timeZone)
    THEN {[calls |-> <<>>, replies |-> <<>>, code |-> 0, tz |-> Get(timeZone)]}
    ELSE LET call == [op |-> "calendars.get", calendarId |-> calendarId]
         IN  {[calls |-> <<call>>, replies |-> <<[code |-> 0, timeZone |-> z]>>,
               code |-> 0, tz |-> IF TruthyStr(z) THEN Get(z) ELSE "UTC"] :
                 z \in IF CalendarKnown(calendarId) THEN CalendarZones ELSE {}}
             \cup {[calls |-> <<call>>, replies |-> <<[code |-> c]>>,
                    code |-> 0, tz |-> "UTC"] : c \in FailureCodes}

\* The lookup tried a second time after a failure.
resolveTimeZoneRetrying(calendarId, timeZone) ==
    IF TruthyStr(timeZone)
    THEN {[calls |-> <<>>, replies |-> <<>>, code |-> 0, tz |-> Get(timeZone)]}
    ELSE LET call == [op |-> "calendars.get", calendarId |-> calendarId]
             once == {[calls |-> <<call>>, replies |-> <<[code |-> 0, timeZone |-> z]>>,
                       code |-> 0, tz |-> IF TruthyStr(z) THEN Get(z) ELSE "UTC"] :
                         z \in IF CalendarKnown(calendarId) THEN CalendarZones ELSE {}}
         IN  once
             \cup {[calls |-> <<call>> \o again.calls,
                    replies |-> <<[code |-> c]>> \o again.replies,
                    code |-> again.code, tz |-> again.tz] :
                      c \in FailureCodes,
                      again \in once \cup {[calls |-> <<call>>, replies |-> <<[code |-> d]>>,
                                            code |-> d, tz |-> ""] : d \in FailureCodes}}

\* The ways resolveTimeZone can go: no provider call when a zone was
\* supplied, else one calendars.get that yields the calendar's zone ("UTC"
\* when it reports none) or fails with a code.
resolveTimeZone(calendarId, timeZone) ==
    IF TruthyStr(timeZone)
    THEN {[calls |-> <<>>, replies |-> <<>>, code |-> 0, tz |-> Get(timeZone)]}
    ELSE LET call == [op |-> "calendars.get", calendarId |-> calendarId]
         IN  {[calls |-> <<call>>, replies |-> <<[code |-> 0, timeZone |-> z]>>,
               code |-> 0, tz |-> IF TruthyStr(z) THEN Get(z) ELSE "UTC"] :
                 z \in IF CalendarKnown(calendarId) THEN CalendarZones ELSE {}}
             \cup {[calls |-> <<call>>, replies |-> <<[code |-> c]>>,
                    code |-> c, tz |-> ""] : c \in FailureCodes}

(***************************************************************************)
(* Provider answers.  Each gives the ways one provider call can end: the   *)
(* data of a success (only where the provider's state allows one) or a     *)
(* failure code.  code = 0 marks success.                                  *)
(***************************************************************************)
Failures == {[code |-> c] : c \in FailureCodes}

\* What the handler sees of an answer: its code and payload, without the
\* provider's state.
Reply(res) == [f \in DOMAIN res \ {"events"} |-> res[f]]

\* events.insert: the provider assigns a free id and stores the event.
ProviderInsert(store, calendarId, body) ==
    {[code |-> 0,
      data |-> [id |-> e, htmlLink |-> None, summary |-> body.summary],
      events |-> [store EXCEPT ![e] = StoredEvent(body)]] :
        e \in IF CalendarKnown(calendarId) /\ FreeIds(store) # {}
              THEN {CHOOSE f \in FreeIds(store) : TRUE} ELSE {}}
    \cup Failures

\* events.patch storing the body as a new event when none is held.
ProviderPatchUpserting(store, calendarId, eventId, body) ==
    {[code |-> 0,
      data |-> [id |-> e, htmlLink |-> None, summary |-> ""],
      events |-> [store EXCEPT ![e] =
                     IF store[e] = NoEvent
                     THEN [summary |-> "", description |-> None, start |-> T09,
                           end |-> T10, attendees |-> <<>>]
                     ELSE PatchedEvent(store[e], body)]] :
        e \in IF CalendarKnown(calendarId) /\ eventId \in DOMAIN store
              THEN {eventId} ELSE {}}
    \cup Failures

\* events.patch: a held event is merged with the body; an event the
\* provider does not hold cannot be patched.
ProviderPatch(store, calendarId, eventId, body) ==
    {[code |-> 0,
      data |-> [id |-> e, htmlLink |-> None,
                summary |-> PatchedEvent(store[e], body).summary],
      events |-> [store EXCEPT ![e] = PatchedEvent(store[e], body)]] :
        e \in IF EventHeld(store, calendarId, eventId) THEN {eventId} ELSE {}}
    \cup Failures

\* events.delete: a held event is removed; an event the provider does not
\* hold cannot be deleted.
ProviderDelete(store, calendarId, eventId) ==
    {[code |-> 0, events |-> [store EXCEPT ![e] = NoEvent]] :
        e \in IF EventHeld(store, calendarId, eventId) THEN {eventId} ELSE {}}
    \cup Failures

(***************************************************************************)
(* create_event                                                            *)
(***************************************************************************)
\* z.string().email(), as far as the inputs drawn here go: one "@" with a
\* character before it and a dotted domain after it.
EmailAddresses == {"ann@example.com"}
IsEmail(s) == s \in EmailAddresses

AllEmails(list) == \A i \in 1..Len(list) : IsEmail(list[i])

\* attendees.map((email) => ({ email }))
EmailObjects(list) == [i \in 1..Len(list) |-> [email |-> list[i]]]

\* The registered shape createEventParams.
createEventParams(input) ==
    /\ Len(input.summary) >= 1
    /\ IsSome(input.attendees) => AllEmails(Get(input.attendees))

\* createEventSchema: the shape refined by start < end.
createEventSchema(input) ==
    /\ createEventParams(input)
    /\ DateLess(input.start, input.end)

\* res.data.htmlLink || res.data.id || fallback
EventLink(data, fallback) ==
    IF TruthyStr(data.htmlLink) THEN Get(data.htmlLink)
    ELSE IF data.id # "" THEN data.id ELSE fallback

createEventBody(input, tz) ==
    LET base == [summary |-> input.summary,
                 description |-> input.description,
                 start |-> [dateTime |-> input.start, timeZone |-> Some(tz)],
                 end |-> [dateTime |-> input.end, timeZone |-> Some(tz)]]
    IN  IF TruthyArr(input.attendees) /\ Len(Get(input.attendees)) > 0
        THEN base @@ [attendees |-> EmailObjects(Get(input.attendees))]
        ELSE base

createEvent(input, store) ==
    LET resolvedCalendarId == resolveCalendarId(input.calendarId)
        caught(code) ==
            EventsCatch(code, <<"Calendar not found: ", Render(input.calendarId)>>,
                        "Failed to create event: ")
        insert(lk) ==
            LET body == createEventBody(input, lk.tz)
                call == [op |-> "events.insert", calendarId |-> resolvedCalendarId,
                         requestBody |-> body]
            IN  {IF res.code = 0
                 THEN Run(lk.calls \o <<call>>, lk.replies \o <<Reply(res)>>,
                          TextEnvelope(<<"Event created successfully: \"", input.summary,
                                         "\"\nEvent link: ",
                                         EventLink(res.data, "unknown")>>),
                          res.events)
                 ELSE Run(lk.calls \o <<call>>, lk.replies \o <<Reply(res)>>,
                          caught(res.code), store) :
                   res \in ProviderInsert(store, resolvedCalendarId, body)}
    IN  UNION {IF lk.code = 0 THEN insert(lk)
               ELSE {Run(lk.calls, lk.replies, caught(lk.code), store)} :
                 lk \in resolveTimeZone(resolvedCalendarId, input.timeZone)}

(***************************************************************************)
(* update_event                                                            *)
(***************************************************************************)
\* The registered shape updateEventParams.
updateEventParams(input) ==
    /\ Len(input.eventId) >= 1
    /\ IsSome(input.attendees) => AllEmails(Get(input.attendees))

\* First refinement of updateEventSchema: some field to update is given.
updateEventAnyField(input) ==
    \/ TruthyStr(input.summary)
    \/ IsSome(input.description)
    \/ TruthyStr(input.start)
    \/ TruthyStr(input.end)
    \/ TruthyArr(input.attendees)
    \/ TruthyStr(input.timeZone)

\* Second refinement of updateEventSchema: start < end if both are given.
updateEventStartBeforeEnd(input) ==
    IF TruthyStr(input.start) /\ TruthyStr(input.end)
    THEN DateLess(Get(input.start), Get(input.end))
    ELSE TRUE

updateEventSchema(input) ==
    /\ updateEventParams(input)
    /\ updateEventAnyField(input)
    /\ updateEventStartBeforeEnd(input)

\* The fields copied by truthiness (if (summary) ...) instead of !== undefined.
updateEventBodyFieldsTruthy(input) ==
    {f \in {"summary", "description", "start", "end", "attendees"} :
        IsSome(input[f]) /\ input[f] # Some("")}

\* The fields updateEvent copies into the patch body.
updateEventBodyFields(input) ==
    {f \in {"summary", "description", "start", "end", "attendees"} : IsSome(input[f])}

updateEventBody(input, tz) ==
    [f \in updateEventBodyFields(input) |->
        CASE f = "summary" -> Get(input.summary)
          [] f = "description" -> Get(input.description)
          [] f = "start" -> [dateTime |-> Get(input.start), timeZone |-> tz]
          [] f = "end" -> [dateTime |-> Get(input.end), timeZone |-> tz]
          [] f = "attendees" -> EmailObjects(Get(input.attendees))]

\* The lookup made whether or not start or end is given.
updateEventZoneAlways(input, resolvedCalendarId) ==
    IF ~TruthyStr(input.timeZone)
    THEN {[calls |-> lk.calls, replies |-> lk.replies, code |-> lk.code,
           tz |-> Some(lk.tz)] :
            lk \in resolveTimeZone(resolvedCalendarId, input.timeZone)}
    ELSE {[calls |-> <<>>, replies |-> <<>>, code |-> 0, tz |-> input.timeZone]}

\* let tz = timeZone; if (!tz && (start || end)) tz = await resolveTimeZone(...)
updateEventZone(input, resolvedCalendarId) ==
    IF ~TruthyStr(input.timeZone) /\ (TruthyStr(input.start) \/ TruthyStr(input.end))
    THEN {[calls |-> lk.calls, replies |-> lk.replies, code |-> lk.code,
           tz |-> Some(lk.tz)] :
            lk \in resolveTimeZone(resolvedCalendarId, input.timeZone)}
    ELSE {[calls |-> <<>>, replies |-> <<>>, code |-> 0, tz |-> input.timeZone]}

updateEvent(input, store) ==
    LET resolvedCalendarId == resolveCalendarId(input.calendarId)
        caught(code) ==
            EventsCatch(code, <<"Event or calendar not found: ", input.eventId, " in ",
                                Render(input.calendarId)>>,
                        "Failed to update event: ")
        patch(lk) ==
            LET body == updateEventBody(input, lk.tz)
                call == [op |-> "events.patch", calendarId |-> resolvedCalendarId,
                         eventId |-> input.eventId, requestBody |-> body]
            IN  {IF res.code = 0
                 THEN Run(lk.calls \o <<call>>, lk.replies \o <<Reply(res)>>,
                          TextEnvelope(<<"Event updated successfully: \"",
                                         IF res.data.summary # "" THEN res.data.summary
                                         ELSE Render(input.summary),
                                         "\"\nEvent link: ",
                                         EventLink(res.data, input.eventId)>>),
                          res.events)
                 ELSE Run(lk.calls \o <<call>>, lk.replies \o <<Reply(res)>>,
                          caught(res.code), store) :
                   res \in ProviderPatch(store, resolvedCalendarId, input.eventId, body)}
    IN  UNION {IF lk.code = 0 THEN patch(lk)
               ELSE {Run(lk.calls, lk.replies, caught(lk.code), store)} :
                 lk \in updateEventZone(input, resolvedCalendarId)}

(***************************************************************************)
(* edit_event: the legacy names index.ts exports for update_event.         *)
(***************************************************************************)
\* The alias taken of the refined schema instead of the plain shape.
editEventParamsRefined(input) == updateEventSchema(input)

\* updateEventParams as editEventParams
editEventParams(input) == updateEventParams(input)

\* updateEvent as editEvent
editEvent(input, store) == updateEvent(input, store)

(***************************************************************************)
(* delete_event                                                            *)
(***************************************************************************)
deleteEventParams(input) == Len(input.eventId) >= 1

deleteEvent(input, store) ==
    LET resolvedCalendarId == resolveCalendarId(input.calendarId)
        call == [op |-> "events.delete", calendarId |-> resolvedCalendarId,
                 eventId |-> input.eventId]
    IN  {IF res.code = 0
         THEN Run(<<call>>, <<Reply(res)>>,
                  TextEnvelope(<<"Event deleted successfully: ", input.eventId,
                                 " from calendar '", resolvedCalendarId, "'">>),
                  res.events)
         ELSE Run(<<call>>, <<Reply(res)>>,
                  EventsCatch(res.code,
                              <<"Event or calendar not found: ", input.eventId, " in ",
                                Render(input.calendarId)>>,
                              "Failed to delete event: "),
                  store) :
           res \in ProviderDelete(store, resolvedCalendarId, input.eventId)}

(***************************************************************************)
(* list_events and search_events                                           *)
(***************************************************************************)
\* Flattens texts into one, sep between consecutive ones (Array.join).
RECURSIVE Join(_, _)
Join(texts, sep) ==
    IF Len(texts) = 0 THEN <<>>
    ELSE IF Len(texts) = 1 THEN texts[1]
    ELSE texts[1] \o <<sep>> \o Join(Tail(texts), sep)

\* The held events in the order events.list returns them under
\* orderBy: "startTime".
ItemsByStart(store, ids) ==
    CHOOSE seq \in [1..Cardinality(ids) -> ids] :
        /\ \A i, j \in DOMAIN seq : i # j => seq[i] # seq[j]
        /\ \A i, j \in DOMAIN seq :
              i < j => DateParse(store[seq[i]].start) <= DateParse(store[seq[j]].start)

\* An event resource as events.list returns it.
EventResource(store, e) ==
    [id |-> e, summary |-> store[e].summary,
     start |-> [dateTime |-> store[e].start]]

\* The first n entries of a sequence.
Take(seq, n) == SubSeq(seq, 1, IF n < Len(seq) THEN n ELSE Len(seq))

\* events.list: the events of the calendar inside the window (if one is
\* given) that match the query (if one is given), by start time, at most
\* maxResults of them.
ProviderList(store, calendarId, timeMin, timeMax, q, maxResults) ==
    LET hit == {e \in EventIds :
                  /\ store[e] # NoEvent
                  /\ IsSome(timeMin) => DateLess(Get(timeMin), store[e].end)
                  /\ IsSome(timeMax) => DateLess(store[e].start, Get(timeMax))
                  /\ IsSome(q) => store[e].summary = Get(q)}
        sorted == ItemsByStart(store, hit)
        items == [i \in DOMAIN sorted |-> EventResource(store, sorted[i])]
    IN  {[code |-> 0,
          items |-> IF IsSome(maxResults) THEN Take(items, Get(maxResults)) ELSE items] :
            k \in IF CalendarKnown(calendarId) THEN {1} ELSE {}}
        \cup Failures

formatEventForDisplay(event) ==
    <<IF event.start.dateTime # "" THEN event.start.dateTime ELSE "No start time",
      " -> ",
      IF event.summary # "" THEN event.summary ELSE "No title",
      " (ID: ", IF event.id # "" THEN event.id ELSE "no-id", ")">>

MaxResultsCap == 2500

\* maxResults: z.number().int().positive().max(2500).optional()
MaxResultsOk(maxResults) ==
    IsSome(maxResults) => (Get(maxResults) > 0 /\ Get(maxResults) <= MaxResultsCap)

listEventsParams(input) == MaxResultsOk(input.maxResults)

\* A default window of a 31-day month, in hours.
DefaultWindowOfMonth == 31 * 24

\* The default window is 30 days, in hours.
DefaultWindow == 30 * 24

listEvents(input, store, clock) ==
    LET resolvedCalendarId == resolveCalendarId(input.calendarId)
        defaultEnd == clock + DefaultWindow
        timeMin == IF TruthyStr(input.start) THEN Get(input.start) ELSE ToISO(clock)
        timeMax == IF TruthyStr(input.end) THEN Get(input.end) ELSE ToISO(defaultEnd)
        caught(code) ==
            EventsCatch(code, <<"Calendar not found: ", Render(input.calendarId)>>,
                        "Failed to list events: ")
        list(lk) ==
            LET call == [op |-> "events.list", calendarId |-> resolvedCalendarId,
                         timeMin |-> Some(timeMin), timeMax |-> Some(timeMax),
                         q |-> None, maxResults |-> input.maxResults,
                         timeZone |-> lk.tz]
            IN  {IF res.code = 0
                 THEN Run(lk.calls \o <<call>>, lk.replies \o <<Reply(res)>>,
                          TextEnvelope(
                            IF Len(res.items) = 0
                            THEN <<"No events found in calendar '", resolvedCalendarId,
                                   "' from ", timeMin, " to ", timeMax>>
                            ELSE <<"Found ", ToString(Len(res.items)),
                                   " events in calendar '", resolvedCalendarId, "':\n\n">>
                                 \o Join([i \in DOMAIN res.items |->
                                            formatEventForDisplay(res.items[i])], "\n")),
                          store)
                 ELSE Run(lk.calls \o <<call>>, lk.replies \o <<Reply(res)>>,
                          caught(res.code), store) :
                   res \in ProviderList(store, resolvedCalendarId, Some(timeMin),
                                        Some(timeMax), None, input.maxResults)}
    IN  UNION {IF lk.code = 0 THEN list(lk)
               ELSE {Run(lk.calls, lk.replies, caught(lk.code), store)} :
                 lk \in resolveTimeZone(resolvedCalendarId, input.timeZone)}

searchEventsParams(input) ==
    /\ Len(input.query) >= 1
    /\ MaxResultsOk(input.maxResults)

searchEvents(input, store) ==
    LET resolvedCalendarId == resolveCalendarId(input.calendarId)
        caught(code) ==
            EventsCatch(code, <<"Calendar not found: ", Render(input.calendarId)>>,
                        "Failed to search events: ")
        list(lk) ==
            LET call == [op |-> "events.list", calendarId |-> resolvedCalendarId,
                         timeMin |-> None, timeMax |-> None,
                         q |-> Some(input.query), maxResults |-> input.maxResults,
                         timeZone |-> lk.tz]
            IN  {IF res.code = 0
                 THEN Run(lk.calls \o <<call>>, lk.replies \o <<Reply(res)>>,
                          TextEnvelope(
                            IF Len(res.items) = 0
                            THEN <<"No events found matching query \"", input.query,
                                   "\" in calendar '", resolvedCalendarId, "'">>
                            ELSE <<"Found ", ToString(Len(res.items)),
                                   " events matching \"", input.query,
                                   "\" in calendar '", resolvedCalendarId, "':\n\n">>
                                 \o Join([i \in DOMAIN res.items |->
                                            formatEventForDisplay(res.items[i])], "\n")),
                          store)
                 ELSE Run(lk.calls \o <<call>>, lk.replies \o <<Reply(res)>>,
                          caught(res.code), store) :
                   res \in ProviderList(store, resolvedCalendarId, None, None,
                                        Some(input.query), input.maxResults)}
    IN  UNION {IF lk.code = 0 THEN list(lk)
               ELSE {Run(lk.calls, lk.replies, caught(lk.code), store)} :
                 lk \in resolveTimeZone(resolvedCalendarId, input.timeZone)}

(***************************************************************************)
(* get_current_time                                                        *)
(***************************************************************************)
\* Intl.DateTimeFormat().resolvedOptions().timeZone of the server process.
ProcessZone == "Etc/UTC"

getCurrentTime(store, clock) ==
    {Run(<<>>, <<>>,
         TextEnvelope(<<"Current time: ", ToISO(clock), " (", ProcessZone, ")">>),
         store)}

(***************************************************************************)
(* list_calendars                                                          *)
(***************************************************************************)
\* Calendar list entries as the provider returns them; a field the
\* provider leaves out is None.
OwnCalendar ==
    [id |-> Some("primary"), summary |-> Some("Personal"), description |-> None,
     primary |-> Some(TRUE), accessRole |-> Some("owner"),
     timeZone |-> Some("Europe/Paris")]

BareCalendar ==
    [id |-> None, summary |-> None, description |-> Some("Shared rooms"),
     primary |-> None, accessRole |-> None, timeZone |-> None]

\* An entry whose optional fields are there but empty or false.
BlankCalendar ==
    [id |-> Some("work"), summary |-> Some(""), description |-> Some(""),
     primary |-> Some(FALSE), accessRole |-> Some("reader"), timeZone |-> Some("")]

\* The sequences calendarList.list can return.
CalendarLists ==
    {<<>>, <<OwnCalendar>>, <<BareCalendar, OwnCalendar>>, <<OwnCalendar, BareCalendar>>,
     <<BlankCalendar, OwnCalendar>>}

ProviderCalendarList ==
    {[code |-> 0, items |-> l] : l \in CalendarLists} \cup Failures

\* x || undefined for an optional string.
OrUndefined(o) == IF TruthyStr(o) THEN o ELSE None

\* The projection that leaves the calendar's zone out.
simplifiedCalendarWithoutZone(cal) ==
    [id |-> IF TruthyStr(cal.id) THEN Get(cal.id) ELSE "",
     summary |-> IF TruthyStr(cal.summary) THEN Get(cal.summary) ELSE "Untitled Calendar",
     description |-> OrUndefined(cal.description),
     primary |-> IF cal.primary = Some(TRUE) THEN Some(TRUE) ELSE None,
     accessRole |-> OrUndefined(cal.accessRole),
     timeZone |-> None]

\* The projection of a provider item into a CalendarListEntry.
simplifiedCalendar(cal) ==
    [id |-> IF TruthyStr(cal.id) THEN Get(cal.id) ELSE "",
     summary |-> IF TruthyStr(cal.summary) THEN Get(cal.summary) ELSE "Untitled Calendar",
     description |-> OrUndefined(cal.description),
     primary |-> IF cal.primary = Some(TRUE) THEN Some(TRUE) ELSE None,
     accessRole |-> OrUndefined(cal.accessRole),
     timeZone |-> OrUndefined(cal.timeZone)]

formattedCalendar(cal) ==
    <<"* ", IF TruthyStr(cal.id) THEN Get(cal.id) ELSE "unknown-id",
      IF cal.primary = Some(TRUE) THEN " (Primary)" ELSE "",
      "\n  ", IF TruthyStr(cal.summary) THEN Get(cal.summary) ELSE "Untitled Calendar">>
    \o (IF TruthyStr(cal.description) THEN <<" - ", Get(cal.description)>> ELSE <<"">>)
    \o (IF TruthyStr(cal.accessRole) THEN <<" [", Get(cal.accessRole), "]">> ELSE <<"">>)

UnauthorizedRefreshText ==
    <<"Unauthorized - check your Google Calendar permissions or refresh token">>

listCalendars(store) ==
    LET call == [op |-> "calendarList.list", showHidden |-> FALSE, showDeleted |-> FALSE]
    IN  {IF res.code = 0
         THEN IF Len(res.items) = 0
              THEN Run(<<call>>, <<Reply(res)>>,
                       DataEnvelope(<<"No calendars found in your account.">>,
                                    [calendars |-> <<>>]),
                       store)
              ELSE Run(<<call>>, <<Reply(res)>>,
                       DataEnvelope(
                         <<"Found ", ToString(Len(res.items)), " calendars:\n\n">>
                         \o Join([i \in DOMAIN res.items |->
                                    formattedCalendar(res.items[i])], "\n\n"),
                         [calendars |-> [i \in DOMAIN res.items |->
                                           simplifiedCalendar(res.items[i])]]),
                       store)
         ELSE IF res.code = 401 \/ res.code = 403
         THEN Run(<<call>>, <<Reply(res)>>, TextEnvelope(UnauthorizedRefreshText), store)
         ELSE Run(<<call>>, <<Reply(res)>>,
                  Thrown(<<"Failed to list calendars: ", ProviderMessage(res.code)>>),
                  store) :
           res \in ProviderCalendarList}

(***************************************************************************)
(* get_freebusy.  The calendarIds string is the sequence of its            *)
(* characters; a calendar id is the sequence of characters left of it      *)
(* after splitting and trimming.                                           *)
(***************************************************************************)
Comma == ","
Space == " "

\* String.prototype.split(",")
RECURSIVE Split(_)
Split(s) ==
    IF \A i \in 1..Len(s) : s[i] # Comma THEN <<s>>
    ELSE LET k == CHOOSE i \in 1..Len(s) :
                    /\ s[i] = Comma
                    /\ \A j \in 1..(i - 1) : s[j] # Comma
         IN  <<SubSeq(s, 1, k - 1)>> \o Split(SubSeq(s, k + 1, Len(s)))

\* String.prototype.trim()
RECURSIVE Trim(_)
Trim(s) ==
    IF Len(s) = 0 THEN s
    ELSE IF s[1] = Space THEN Trim(Tail(s))
    ELSE IF s[Len(s)] = Space THEN Trim(SubSeq(s, 1, Len(s) - 1))
    ELSE s

\* calendarIds.split(",").map((id) => id.trim()).filter((id) => id.length > 0)
NonEmpty(id) == Len(id) > 0

\* The parse without the filter that drops empty entries.
calendarIdListKeepingEmpty(calendarIds) ==
    LET parts == Split(calendarIds)
    IN  [i \in DOMAIN parts |-> Trim(parts[i])]

calendarIdList(calendarIds) ==
    LET parts == Split(calendarIds)
    IN  SelectSeq([i \in DOMAIN parts |-> Trim(parts[i])], NonEmpty)

MaxCalendarIds == 50

\* The registered shape getFreebusyParams.
getFreebusyParams(input) == Len(input.calendarIds) >= 1

\* 1 year, in hours.
maxRange == 365 * 24

\* getFreebusySchema: the shape refined by start < end and by the range
\* limit.  A subtraction with an Invalid Date gives NaN, which is not <= maxRange.
getFreebusySchema(input) ==
    /\ getFreebusyParams(input)
    /\ DateLess(input.start, input.end)
    /\ DateParse(input.start) # NaN
    /\ DateParse(input.end) # NaN
    /\ DateParse(input.end) - DateParse(input.start) <= maxRange

\* What the provider can report for one calendar of a free/busy query.
Busy1 == [start |-> T09, end |-> T10]
Busy2 == [start |-> "2025-01-01T07:00:00Z", end |-> "2025-01-01T08:00:00Z"]

CalendarDataValues ==
    {[errors |-> Some(<<[reason |-> "notFound"]>>), busy |-> None],
     [errors |-> Some(<<[reason |-> "rateLimitExceeded"], [reason |-> "internalError"]>>),
      busy |-> Some(<<Busy1>>)],
     [errors |-> Some(<<>>), busy |-> None],
     [errors |-> None, busy |-> Some(<<Busy1, Busy2>>)]}

\* freebusy.query: per-calendar data for any part of the requested ids.
ProviderFreebusy(ids) ==
    LET asked == {ids[i] : i \in DOMAIN ids}
    IN  {[code |-> 0, calendars |-> m] :
           m \in UNION {[S -> CalendarDataValues] : S \in SUBSET asked}}
        \cup Failures

\* calData && (!calData.errors || calData.errors.length === 0)
HasErrors(calendarData) ==
    IsSome(calendarData.errors) /\ Len(Get(calendarData.errors)) > 0

Successful(calendars, id) ==
    id \in DOMAIN calendars /\ ~HasErrors(calendars[id])

\* The projection of the busy list with the intervals in reverse order.
busyTimesReversed(calendarData) ==
    LET busy == IF IsSome(calendarData.busy) THEN Get(calendarData.busy) ELSE <<>>
    IN  [i \in DOMAIN busy |->
           [start |-> busy[Len(busy) + 1 - i].start, end |-> busy[Len(busy) + 1 - i].end]]

\* (calendarData.busy || []).map((b) => ({ start: b.start, end: b.end }))
busyTimes(calendarData) ==
    LET busy == IF IsSome(calendarData.busy) THEN Get(calendarData.busy) ELSE <<>>
    IN  [i \in DOMAIN busy |-> [start |-> busy[i].start, end |-> busy[i].end]]

formatBusyTime(busyTime) ==
    <<"  * ", IF busyTime.start # "" THEN busyTime.start ELSE "Unknown start",
      " -> ", IF busyTime.end # "" THEN busyTime.end ELSE "Unknown end">>

formatCalendarBusyTimes(calendarId, times) ==
    IF Len(times) = 0 THEN calendarId \o <<":\n  * Free (no busy times)">>
    ELSE calendarId \o <<":\n">>
         \o Join([i \in DOMAIN times |-> formatBusyTime(times[i])], "\n")

\* The text block the forEach pushes for one requested id.
calendarResult(calendars, calendarId) ==
    IF calendarId \notin DOMAIN calendars
    THEN calendarId \o <<":\n  * Error: Calendar not found or inaccessible">>
    ELSE IF HasErrors(calendars[calendarId])
    THEN LET errs == Get(calendars[calendarId].errors)
         IN  calendarId \o <<":\n  * Error: ">>
             \o Join([i \in DOMAIN errs |-> <<errs[i].reason>>], ", ")
    ELSE formatCalendarBusyTimes(calendarId, busyTimes(calendars[calendarId]))

\* The entries the forEach pushes to freebusyData, in request order.
RECURSIVE freebusyData(_, _)
freebusyData(calendars, ids) ==
    IF Len(ids) = 0 THEN <<>>
    ELSE (IF Successful(calendars, ids[1])
          THEN <<[calendarId |-> ids[1], busy |-> busyTimes(calendars[ids[1]])]>>
          ELSE <<>>)
         \o freebusyData(calendars, Tail(ids))

\* The tally counting every id the response mentions, errors or not.
successfulCalendarsIgnoringErrors(calendars, ids) ==
    Cardinality({i \in DOMAIN ids : ids[i] \in DOMAIN calendars})

successfulCalendars(calendars, ids) ==
    Cardinality({i \in DOMAIN ids : Successful(calendars, ids[i])})

\* The items of a request that names the first calendar only.
freebusyItemsFirstOnly(ids) == <<[id |-> ids[1]]>>

\* calendarIdList.map((id) => ({ id }))
freebusyItems(ids) == [i \in DOMAIN ids |-> [id |-> ids[i]]]

getFreebusy(input, store) ==
    LET timeZone == IF IsSome(input.timeZone) THEN Get(input.timeZone) ELSE "UTC"
        ids == calendarIdList(input.calendarIds)
        empty == [range |-> [start |-> input.start, end |-> input.end],
                  timeZone |-> timeZone, calendars |-> <<>>]
        call == [op |-> "freebusy.query",
                 requestBody |-> [timeMin |-> input.start, timeMax |-> input.end,
                                  timeZone |-> timeZone,
                                  items |-> freebusyItems(ids)]]
    IN  IF Len(ids) = 0
        THEN {Run(<<>>, <<>>, DataEnvelope(<<"Error: No valid calendar IDs provided.">>, empty),
                  store)}
        ELSE IF Len(ids) > MaxCalendarIds
        THEN {Run(<<>>, <<>>, DataEnvelope(<<"Error: Too many calendar IDs (max 50).">>, empty),
                  store)}
        ELSE {IF res.code = 0
              THEN Run(<<call>>, <<Reply(res)>>,
                       DataEnvelope(
                         <<"Free/busy information from ", input.start, " to ", input.end,
                           " (", timeZone, "):\n\n">>
                         \o Join([i \in DOMAIN ids |-> calendarResult(res.calendars, ids[i])],
                                 "\n\n")
                         \o <<"\n\nSummary: Successfully queried ",
                              ToString(successfulCalendars(res.calendars, ids)), "/",
                              ToString(Len(ids)), " calendars.">>,
                         [range |-> [start |-> input.start, end |-> input.end],
                          timeZone |-> timeZone,
                          calendars |-> freebusyData(res.calendars, ids)]),
                       store)
              ELSE IF res.code = 401 \/ res.code = 403
              THEN Run(<<call>>, <<Reply(res)>>, TextEnvelope(UnauthorizedRefreshText), store)
              ELSE IF res.code = 400
              THEN Run(<<call>>, <<Reply(res)>>,
                       TextEnvelope(<<"Bad request - check your date formats and calendar IDs: ",
                                      ProviderMessage(res.code)>>),
                       store)
              ELSE Run(<<call>>, <<Reply(res)>>,
                       Thrown(<<"Failed to get free/busy information: ",
                                ProviderMessage(res.code)>>),
                       store) :
                res \in ProviderFreebusy(ids)}

(***************************************************************************)
(* The credential check of the route: withMcpAuth(baseHandler, verifyToken, *)
(* { required: true }).                                                    *)
(***************************************************************************)
\* The check without the guard on an unset secret: bearerToken === secret.
verifyTokenWithoutGuard(bearerToken, env) ==
    IF bearerToken = env
    THEN Some([token |-> bearerToken, scopes |-> <<>>, clientId |-> "self"])
    ELSE None

verifyToken(bearerToken, env) ==
    IF ~TruthyStr(env) THEN None
    ELSE IF bearerToken = env
    THEN Some([token |-> bearerToken, scopes |-> <<>>, clientId |-> "self"])
    ELSE None

(***************************************************************************)
(* The tool registry of the MCP route: server.tool(name, description,      *)
(* parameter shape, handler).  An inbound call is validated against the    *)
(* registered shape; the handler runs only if the shape accepts the input. *)
(***************************************************************************)
ToolNames ==
    {"list_calendars", "list_events", "search_events", "create_event", "update_event",
     "delete_event", "get_freebusy", "get_current_time", "edit_event"}

\* The parameter shape registered under a name, applied to an input.
RegisteredParams(name, input) ==
    CASE name = "list_calendars" -> TRUE
      [] name = "list_events" -> listEventsParams(input)
      [] name = "search_events" -> searchEventsParams(input)
      [] name = "create_event" -> createEventParams(input)
      [] name = "update_event" -> updateEventParams(input)
      [] name = "delete_event" -> deleteEventParams(input)
      [] name = "get_freebusy" -> getFreebusyParams(input)
      [] name = "get_current_time" -> TRUE
      [] name = "edit_event" -> editEventParams(input)

\* The handler registered under a name: its possible runs on an input.
RegisteredHandler(name, input, store, clock) ==
    CASE name = "list_calendars" -> listCalendars(store)
      [] name = "list_events" -> listEvents(input, store, clock)
      [] name = "search_events" -> searchEvents(input, store)
      [] name = "create_event" -> createEvent(input, store)
      [] name = "update_event" -> updateEvent(input, store)
      [] name = "delete_event" -> deleteEvent(input, store)
      [] name = "get_freebusy" -> getFreebusy(input, store)
      [] name = "get_current_time" -> getCurrentTime(store, clock)
      [] name = "edit_event" -> editEvent(input, store)

\* The handlers that read the clock (new Date()).
ReadsClock(name) == name \in {"list_events", "get_current_time"}

InvalidArguments == "Invalid arguments for tool"

\* The transport takes one inbound call at a time.
Idle == pc = "idle"

\* One inbound call of the tool registered under name, at instant clock,
\* presenting a bearer token (or none).  The auth wrapper answers a call
\* for which verifyToken yields nothing itself; baseHandler is not invoked.
Dispatch(name, input, clock, token) ==
    /\ pc' = "done"
    /\ tool' = name
    /\ req' = input
    /\ bearer' = token
    /\ auth' = verifyToken(token, secret)
    /\ UNCHANGED secret
    /\ IF verifyToken(token, secret) = None
       THEN /\ now' = 0
            /\ calls' = <<>>
            /\ replies' = <<>>
            /\ result' = Unauthenticated
            /\ UNCHANGED events
       ELSE IF RegisteredParams(name, input)
       THEN /\ now' = IF ReadsClock(name) THEN clock ELSE 0
            /\ \E run \in RegisteredHandler(name, input, events, clock) :
                  /\ calls' = run.calls
                  /\ replies' = run.replies
                  /\ result' = run.result
                  /\ events' = run.events
       ELSE /\ now' = 0
            /\ calls' = <<>>
            /\ replies' = <<>>
            /\ result' = Invalid(InvalidArguments)
            /\ UNCHANGED events

\* The transport hands the outcome to the caller; the next call can come.
Respond ==
    /\ pc = "done"
    /\ pc' = "idle"
    /\ tool' = "none"
    /\ req' = <<>>
    /\ now' = 0
    /\ calls' = <<>>
    /\ replies' = <<>>
    /\ result' = NoResult
    /\ bearer' = None
    /\ auth' = None
    /\ UNCHANGED <<secret, events>>

(***************************************************************************)
(* The inputs drawn for each tool.                                         *)
(***************************************************************************)
Instants == {8, 9}

\* MCP_AUTH_SECRET: unset, set to the empty string, set.
Secrets == {None, Some(""), Some("s3cret")}

\* The Authorization header: none, or a bearer token.
BearerTokens == {None, Some(""), Some("s3cret"), Some("guess")}

\* The tokens presented where get_freebusy is exercised alone.
FewBearerTokens == {None, Some("s3cret")}

CalendarIdInputs == {None, Some(""), Some("primary"), Some("team")}
ZoneInputs == {None, Some("Asia/Tokyo")}
\* z.string().optional() also admits the empty string.
EventZoneInputs == {None, Some(""), Some("Asia/Tokyo")}
TimeInputs == {None, Some(T09), Some(T10)}
ListTimeInputs == {None, Some(""), Some(T09), Some(T10)}
\* A start may also lie more than 30 days after the call.
ListStartInputs == ListTimeInputs \cup {Some(T09NextYear)}
MaxResultsInputs == {None, Some(1), Some(3000)}
AttendeeInputs == {None, Some(<<>>), Some(<<"ann@example.com">>)}

NoInput == [none |-> TRUE]

ListEventsInputs ==
    [calendarId : CalendarIdInputs, start : ListStartInputs, end : ListTimeInputs,
     maxResults : MaxResultsInputs, timeZone : EventZoneInputs]

SearchEventsInputs ==
    [calendarId : CalendarIdInputs, query : {"", "Standup"},
     maxResults : MaxResultsInputs, timeZone : EventZoneInputs]

CreateEventInputs ==
    [calendarId : CalendarIdInputs, summary : {"", "Standup"},
     description : {None, Some("")}, start : {T09, T10}, end : {T09, T10},
     timeZone : EventZoneInputs, attendees : AttendeeInputs]

UpdateEventInputs ==
    [calendarId : CalendarIdInputs, eventId : {"", "e1"},
     summary : {None, Some(""), Some("Standup")}, description : {None, Some("")},
     start : TimeInputs, end : TimeInputs, timeZone : EventZoneInputs,
     attendees : {None, Some(<<"ann@example.com">>)}]

DeleteEventInputs == [calendarId : CalendarIdInputs, eventId : {"", "e1"}]

FreebusyInputs(idStrings) ==
    [calendarIds : idStrings, start : {T09}, end : {T10}, timeZone : ZoneInputs]

\* calendarIds strings drawn where all tools are exercised together.
FewIdStrings == {<<>>, <<"a">>, <<"a", ",", "b">>, <<",", " ">>}

\* Ranges from T09: one hour, none, 365 days, 365 days and an hour.
FreebusyRangeInputs ==
    [calendarIds : FewIdStrings, start : {T09}, end : {T10, T09, T09NextYear, T10NextYear},
     timeZone : ZoneInputs]

\* calendarIds strings drawn where get_freebusy is exercised alone: every
\* string of up to MaxIdChars characters, and lists of n ids for the n
\* around the limit.
MaxIdChars == 5
ExtraIds == 1
Alphabet == {Comma, Space, "a", "b", "c"}

StringsUpTo(n) == UNION {[1..k -> Alphabet] : k \in 0..n}

ManyIds(n) ==
    [i \in 1..(2 * n - 1) |->
        IF i % 2 = 0 THEN Comma ELSE IF i % 4 = 1 THEN "a" ELSE "b"]

IdStrings ==
    StringsUpTo(MaxIdChars)
    \cup {ManyIds(n) : n \in (MaxCalendarIds - 1)..(MaxCalendarIds + ExtraIds)}

\* The inputs drawn where get_freebusy is exercised alone: every calendarIds
\* string without a zone, the few strings also with one.
FreebusyAloneInputs ==
    [calendarIds : IdStrings, start : {T09}, end : {T10}, timeZone : {None}]
    \cup FreebusyInputs(FewIdStrings)

ListCalendars ==
    Idle /\ \E token \in BearerTokens : Dispatch("list_calendars", NoInput, 0, token)

ListEvents ==
    Idle /\ \E input \in ListEventsInputs, c \in Instants, token \in BearerTokens :
                Dispatch("list_events", input, c, token)

SearchEvents ==
    Idle /\ \E input \in SearchEventsInputs, token \in BearerTokens :
                Dispatch("search_events", input, 0, token)

CreateEvent ==
    Idle /\ \E input \in CreateEventInputs, token \in BearerTokens :
                Dispatch("create_event", input, 0, token)

UpdateEvent ==
    Idle /\ \E input \in UpdateEventInputs, token \in BearerTokens :
                Dispatch("update_event", input, 0, token)

EditEvent ==
    Idle /\ \E input \in UpdateEventInputs, token \in BearerTokens :
                Dispatch("edit_event", input, 0, token)

DeleteEvent ==
    Idle /\ \E input \in DeleteEventInputs, token \in BearerTokens :
                Dispatch("delete_event", input, 0, token)

GetFreebusy ==
    Idle /\ \E input \in FreebusyRangeInputs, token \in BearerTokens :
                Dispatch("get_freebusy", input, 0, token)

GetCurrentTime ==
    Idle /\ \E c \in Instants, token \in BearerTokens :
                Dispatch("get_current_time", NoInput, c, token)

Init ==
    /\ secret \in Secrets
    /\ bearer = None
    /\ auth = None
    /\ events = [e \in EventIds |-> NoEvent]
    /\ pc = "idle"
    /\ tool = "none"
    /\ req = <<>>
    /\ now = 0
    /\ calls = <<>>
    /\ replies = <<>>
    /\ result = NoResult

Next ==
    \/ ListCalendars
    \/ ListEvents
    \/ SearchEvents
    \/ CreateEvent
    \/ UpdateEvent
    \/ EditEvent
    \/ DeleteEvent
    \/ GetFreebusy
    \/ GetCurrentTime
    \/ Respond

Spec == Init /\ [][Next]_vars

\* get_freebusy alone, over the full range of calendarIds strings.
GetFreebusyOnly ==
    Idle /\ \E input \in FreebusyAloneInputs, token \in FewBearerTokens :
                Dispatch("get_freebusy", input, 0, token)

NextFreebusy == GetFreebusyOnly \/ Respond

\* A deployment whose secret is set.
InitFreebusy == Init /\ secret = Some("s3cret")

SpecFreebusy == InitFreebusy /\ [][NextFreebusy]_vars

(***************************************************************************)
(* Vocabulary of the properties.                                           *)
(***************************************************************************)
Done == pc = "done"
Rejected == result.kind = "invalid"
Refused == result.kind = "unauthenticated"
Returned == result.kind = "returned"
Propagated == result.kind = "thrown"
ResultText == result.content[1].text
NoProviderCall == calls = <<>>

\* Some provider call of the finished invocation failed with this code.
FailedWith(code) == \E i \in DOMAIN replies : replies[i].code = code

\* Every provider call of the finished invocation succeeded.
AllCallsSucceeded == \A i \in DOMAIN replies : replies[i].code = 0

\* The start and end an invocation of create_event / update_event carries.
GivenStart == IF tool = "create_event" THEN Some(req.start) ELSE req.start
GivenEnd == IF tool = "create_event" THEN Some(req.end) ELSE req.end

\* Every event the provider holds starts strictly before it ends.
HeldEventsOrdered(store) ==
    \A e \in EventIds : store[e] # NoEvent => DateLess(store[e].start, store[e].end)

(***************************************************************************)
(* C1.  A create_event or update_event call dispatched through the         *)
(* registry with both start and end present and start not strictly before  *)
(* end is rejected with a validation failure and issues no provider call.  *)
(* The registry validates against createEventParams / updateEventParams,   *)
(* which carry no start < end rule, so the call is forwarded.              *)
(***************************************************************************)
C1_StartNotBeforeEndRejected ==
    (/\ Done
     /\ ~Refused
     /\ tool \in {"create_event", "update_event"}
     /\ TruthyStr(GivenStart) /\ TruthyStr(GivenEnd)
     /\ ~DateLess(Get(GivenStart), Get(GivenEnd)))
    => (Rejected /\ NoProviderCall)

(***************************************************************************)
(* C2.  An update_event call with none of summary, description, start,     *)
(* end, attendees, timeZone present is rejected and issues no provider     *)
(* call, whatever its eventId; one with some field present, also an empty  *)
(* summary, is not rejected for lack of fields.                            *)
(***************************************************************************)
UpdateFields == {"summary", "description", "start", "end", "attendees", "timeZone"}

AtLeastOneMessage == "At least one field to update must be provided"

C2_UpdateNeedsAField ==
    (Done /\ ~Refused /\ tool = "update_event")
    => /\ (\A f \in UpdateFields : ~IsSome(req[f])) => (Rejected /\ NoProviderCall)
       /\ (\E f \in UpdateFields : IsSome(req[f])) => result # Invalid(AtLeastOneMessage)

(***************************************************************************)
(* C3.  Every event the provider holds has start < end; an update_event    *)
(* that supplies only one of start and end does not take the held events   *)
(* out of that condition.                                                  *)
(***************************************************************************)
OneSidedUpdate ==
    /\ tool = "update_event"
    /\ IsSome(req.start) # IsSome(req.end)

C3_OneSidedUpdateKeepsOrder ==
    [][(Idle /\ HeldEventsOrdered(events) /\ OneSidedUpdate') =>
         HeldEventsOrdered(events')]_vars

(***************************************************************************)
(* C4.  In every tool, a provider failure with code 404 yields a returned  *)
(* text envelope without data, never a propagated error.                   *)
(***************************************************************************)
C4_NotFoundIsReturned ==
    (Done /\ FailedWith(404)) => (Returned /\ result.data = None)

(***************************************************************************)
(* C5.  In every tool, a provider failure with code 401 or 403 on any of   *)
(* its provider calls, the timezone lookup included, yields a returned     *)
(* text envelope with the tool's unauthorized message and no data; the     *)
(* outcome is the same for 401 and for 403.                                *)
(***************************************************************************)
UnauthorizedMessage(name) ==
    IF name \in {"list_calendars", "get_freebusy"}
    THEN <<"Unauthorized - check your Google Calendar permissions or refresh token">>
    ELSE <<"Unauthorized - check your Google Calendar permissions">>

C5_UnauthorizedIsReturned ==
    (Done /\ (FailedWith(401) \/ FailedWith(403)))
    => /\ Returned
       /\ result.data = None
       /\ ResultText = UnauthorizedMessage(tool)

C5_Witness ==
    /\ Done
    /\ tool = "update_event"
    /\ Len(calls) = 1
    /\ calls[1].op = "calendars.get"
    /\ replies[1].code = 403
    /\ Returned

(***************************************************************************)
(* C6.  In every tool, a provider failure whose code is none of 404, 401,  *)
(* 403 (nor 400 in get_freebusy) is propagated as a thrown error and not   *)
(* returned as an envelope; in delete_event no failure with code 404, 401  *)
(* or 403 is propagated.                                                   *)
(***************************************************************************)
Classified(name, code) ==
    \/ code \in {404, 401, 403}
    \/ name = "get_freebusy" /\ code = 400

C6_OtherFailuresPropagate ==
    Done =>
      /\ \A code \in FailureCodes :
            (FailedWith(code) /\ ~Classified(tool, code)) => Propagated
      /\ \A code \in {404, 401, 403} :
            (tool = "delete_event" /\ FailedWith(code)) => ~Propagated

C6_Witness ==
    /\ Done
    /\ tool = "delete_event"
    /\ FailedWith(500)
    /\ Propagated

(***************************************************************************)
(* C7.  On every success path of every tool the returned envelope carries  *)
(* a data field; a successful delete_event returns                         *)
(* data = { calendarId, eventId, deleted: true }.                          *)
(***************************************************************************)
C7_SuccessCarriesData ==
    (Done /\ Returned /\ AllCallsSucceeded)
    => /\ IsSome(result.data)
       /\ tool = "delete_event" =>
            Get(result.data) = [calendarId |-> resolveCalendarId(req.calendarId),
                                eventId |-> req.eventId, deleted |-> TRUE]

(***************************************************************************)
(* Vocabulary of the get_freebusy properties.                              *)
(***************************************************************************)
\* The number of entries a calendarIds string holds: its comma-separated
\* segments that contain a character other than a space.
EntryCount(str) ==
    Cardinality({i \in 1..Len(str) :
        /\ str[i] \notin {Comma, Space}
        /\ \A j \in 1..(i - 1) :
              (\A k \in j..(i - 1) : str[k] # Comma) => str[j] = Space})

\* A finished get_freebusy call that the registered shape let through.
FreebusyRan == Done /\ tool = "get_freebusy" /\ ~Refused /\ ~Rejected

\* A finished get_freebusy call whose provider query was answered.
FreebusyAnswered == FreebusyRan /\ Len(replies) = 1 /\ replies[1].code = 0

\* The ids the query asked for, and the provider's per-calendar answer.
AskedIds == [i \in DOMAIN calls[1].requestBody.items |-> calls[1].requestBody.items[i].id]
Answer == replies[1].calendars

AnsweredWithoutErrors(id) ==
    /\ id \in DOMAIN Answer
    /\ (IsSome(Answer[id].errors) => Get(Answer[id].errors) = <<>>)

(***************************************************************************)
(* C8.  get_freebusy whose calendarIds string holds 0 entries or more than *)
(* 50 returns an envelope with an explanatory text and data.calendars =    *)
(* [] and issues no provider call; with 1 to 50 entries, 50 included, the  *)
(* provider query is issued.                                               *)
(***************************************************************************)
C8_IdCountLimits ==
    FreebusyRan =>
      LET entries == EntryCount(req.calendarIds)
      IN
      IF entries = 0 \/ entries > 50
      THEN /\ Returned
           /\ NoProviderCall
           /\ ResultText # <<>>
           /\ IsSome(result.data)
           /\ Get(result.data).calendars = <<>>
      ELSE /\ Len(calls) = 1
           /\ calls[1].op = "freebusy.query"

C8_Witness ==
    /\ FreebusyRan
    /\ EntryCount(req.calendarIds) = 51
    /\ Returned
    /\ NoProviderCall

C8_WitnessAtLimit ==
    /\ FreebusyRan
    /\ EntryCount(req.calendarIds) = 50
    /\ Len(calls) = 1

(***************************************************************************)
(* C9.  In an answered get_freebusy call every requested id is reported on *)
(* its own: an id the answer leaves out as "not found or inaccessible", an *)
(* id answered with errors with its joined reasons, an id answered without *)
(* errors with its busy intervals, which data carries as the provider sent *)
(* them and in its order.  The report of one id is the same whatever the   *)
(* answer holds for the others, and the call returns an envelope.          *)
(***************************************************************************)
\* The report the text is to carry for one id, from that id's answer alone.
ReportOf(id) ==
    IF id \notin DOMAIN Answer
    THEN id \o <<":\n  * Error: Calendar not found or inaccessible">>
    ELSE IF ~AnsweredWithoutErrors(id)
    THEN LET errs == Get(Answer[id].errors)
         IN  id \o <<":\n  * Error: ">> \o Join([i \in DOMAIN errs |-> <<errs[i].reason>>], ", ")
    ELSE formatCalendarBusyTimes(
             id, IF IsSome(Answer[id].busy) THEN Get(Answer[id].busy) ELSE <<>>)

\* The text between the heading and the summary line.
ReportsInText == SubSeq(ResultText, 8, Len(ResultText) - 5)

C9_PerIdReports ==
    FreebusyAnswered =>
      /\ Returned
      /\ ReportsInText = Join([i \in DOMAIN AskedIds |-> ReportOf(AskedIds[i])], "\n\n")
      /\ \A i \in DOMAIN AskedIds :
            AnsweredWithoutErrors(AskedIds[i]) =>
              \E k \in DOMAIN Get(result.data).calendars :
                  Get(result.data).calendars[k] =
                    [calendarId |-> AskedIds[i],
                     busy |-> IF IsSome(Answer[AskedIds[i]].busy)
                              THEN Get(Answer[AskedIds[i]].busy) ELSE <<>>]

\* Three ids: one left out, one with errors, one with two busy intervals.
C9_Witness ==
    /\ FreebusyAnswered
    /\ Len(AskedIds) = 3
    /\ \E i, j, k \in 1..3 :
          /\ AskedIds[i] \notin DOMAIN Answer
          /\ AskedIds[j] \in DOMAIN Answer /\ ~AnsweredWithoutErrors(AskedIds[j])
          /\ AnsweredWithoutErrors(AskedIds[k])
          /\ IsSome(Answer[AskedIds[k]].busy)
          /\ Len(Get(Answer[AskedIds[k]].busy)) = 2

(***************************************************************************)
(* C10.  In an answered get_freebusy call the summary tally "s/t" has t =  *)
(* the number of entries of the calendarIds string and s = the number of   *)
(* requested ids answered without errors, and data.calendars has exactly s *)
(* entries: the requested ids answered without errors, in request order.   *)
(***************************************************************************)
TallyS == ResultText[Len(ResultText) - 3]
TallyT == ResultText[Len(ResultText) - 1]

SuccessCount == Cardinality({i \in DOMAIN AskedIds : AnsweredWithoutErrors(AskedIds[i])})

C10_TallyMatchesData ==
    FreebusyAnswered =>
      LET listed == Get(result.data).calendars
          entries == EntryCount(req.calendarIds)
      IN  /\ TallyT = ToString(entries)
          /\ Len(AskedIds) = entries
          /\ TallyS = ToString(SuccessCount)
          /\ Len(listed) = SuccessCount
          /\ [k \in DOMAIN listed |-> listed[k].calendarId]
               = SelectSeq(AskedIds, AnsweredWithoutErrors)

\* Three ids, one left out of the answer, the other two fine: "2/3".
C10_Witness ==
    /\ FreebusyAnswered
    /\ Len(AskedIds) = 3
    /\ Cardinality({i \in 1..3 : AskedIds[i] \notin DOMAIN Answer}) = 1
    /\ TallyS = "2"
    /\ TallyT = "3"
    /\ Len(Get(result.data).calendars) = 2

(***************************************************************************)
(* C11.  A get_freebusy call issues at most one provider call.  When its   *)
(* calendarIds string holds 1 to 50 entries it issues exactly one          *)
(* freebusy.query whose items are all the parsed ids, in order, and whose  *)
(* range is the requested one; it never issues a timezone lookup, and      *)
(* never one query per calendar.                                           *)
(***************************************************************************)
C11_OneBatchedQuery ==
    FreebusyRan =>
      /\ Len(calls) <= 1
      /\ \A i \in DOMAIN calls : calls[i].op = "freebusy.query"
      /\ LET entries == EntryCount(req.calendarIds)
         IN  (entries >= 1 /\ entries <= 50) =>
               /\ Len(calls) = 1
               /\ Len(calls[1].requestBody.items) = entries
               /\ AskedIds = calendarIdList(req.calendarIds)
               /\ calls[1].requestBody.timeMin = req.start
               /\ calls[1].requestBody.timeMax = req.end

\* Three calendars asked for in one query, each of them answered.
C11_Witness ==
    /\ FreebusyAnswered
    /\ Len(calls) = 1
    /\ Len(AskedIds) = 3
    /\ \A i \in 1..3 : AskedIds[i] \in DOMAIN Answer

(***************************************************************************)
(* C12.  A get_freebusy call dispatched through the registry whose range   *)
(* end - start exceeds 365 days is rejected at validation with "Time range *)
(* cannot exceed 1 year" and issues no provider call; so is, with a        *)
(* validation failure, a range with start >= end; a range of exactly 365   *)
(* days is not rejected.  The registry validates against                   *)
(* getFreebusyParams, which carries neither rule, so every range is        *)
(* forwarded.                                                              *)
(***************************************************************************)
RangeMessage == "Time range cannot exceed 1 year"

\* The length of the requested range, in hours.
RequestedRange == DateParse(req.end) - DateParse(req.start)

C12_RangeLimit ==
    (Done /\ ~Refused /\ tool = "get_freebusy" /\ Len(req.calendarIds) >= 1)
    => /\ RequestedRange > 365 * 24 => (result = Invalid(RangeMessage) /\ NoProviderCall)
       /\ RequestedRange <= 0 => (Rejected /\ NoProviderCall)
       /\ RequestedRange = 365 * 24 => ~Rejected

(***************************************************************************)
(* Vocabulary of the timezone-lookup properties.                           *)
(***************************************************************************)
\* The positions of the timezone lookups among the calls of the invocation.
Lookups == {i \in DOMAIN calls : calls[i].op = "calendars.get"}

\* The tools whose handler takes start / end / timeZone as update_event does.
UpdateTools == {"update_event", "edit_event"}

\* The tools whose handler always needs a zone.
ZonedTools == {"list_events", "search_events", "create_event"}

(***************************************************************************)
(* C13 as stated.  The timezone lookup is issued at most once per call,    *)
(* and only when no timeZone was supplied and the tool is list_events,     *)
(* search_events, create_event, or update_event with start or end present. *)
(* A supplied empty timeZone counts as none for resolveTimeZone, so the    *)
(* lookup is issued with a timeZone present in the input.                  *)
(***************************************************************************)
C13_LookupOnlyWithoutZone ==
    Done =>
      /\ Cardinality(Lookups) <= 1
      /\ Lookups # {} =>
            /\ tool \in ZonedTools \cup UpdateTools
            /\ ~IsSome(req.timeZone)
            /\ tool \in UpdateTools => (IsSome(req.start) \/ IsSome(req.end))

(***************************************************************************)
(* C13 as amended.  The timezone lookup is issued at most once per call,   *)
(* and only when no non-empty timeZone was supplied and the tool is        *)
(* list_events, search_events, create_event, or update_event with start or *)
(* end present; delete_event, list_calendars, get_freebusy,                *)
(* get_current_time, update_event without start and end, and every call    *)
(* with a non-empty timeZone never issue it.                               *)
(***************************************************************************)
C13_LookupOnlyWhenNeeded ==
    Done =>
      /\ Cardinality(Lookups) <= 1
      /\ Lookups # {} =>
            /\ tool \in ZonedTools \cup UpdateTools
            /\ ~TruthyStr(req.timeZone)
            /\ tool \in UpdateTools => (IsSome(req.start) \/ IsSome(req.end))

\* An update of the end alone, without zone: one lookup, then the patch.
C13_Witness ==
    /\ Done
    /\ tool = "update_event"
    /\ req.timeZone = None /\ req.start = None /\ IsSome(req.end)
    /\ Lookups = {1}
    /\ Len(calls) = 2

(***************************************************************************)
(* C14.  In list_events, search_events, create_event and update_event a    *)
(* timezone lookup is the first provider call, and the main call           *)
(* (events.list / insert / patch) follows it only once it has succeeded.   *)
(* A failed lookup ends the call: the main call is not issued, and the     *)
(* failure is classified as a main-call failure is (404: the not-found     *)
(* text without data, 401/403: the unauthorized text without data,         *)
(* otherwise propagated).  The zone sent with the main call is the zone    *)
(* the lookup reported, "UTC" only when it succeeded reporting none.       *)
(***************************************************************************)
MainOps == {"events.list", "events.insert", "events.patch"}

\* The zones a main call carries.
ZoneSent(call) ==
    CASE call.op = "events.list" -> {call.timeZone}
      [] call.op = "events.insert" ->
           {Get(call.requestBody.start.timeZone), Get(call.requestBody.end.timeZone)}
      [] call.op = "events.patch" ->
           {Get(call.requestBody[f].timeZone) :
              f \in DOMAIN call.requestBody \cap {"start", "end"}}

\* The not-found text of a tool of events.ts.
NotFoundText ==
    IF tool \in ZonedTools
    THEN <<"Calendar not found: ", Render(req.calendarId)>>
    ELSE <<"Event or calendar not found: ", req.eventId, " in ", Render(req.calendarId)>>

C14_LookupIsPrerequisite ==
    (Done /\ Lookups # {}) =>
      /\ Lookups = {1}
      /\ \A i \in DOMAIN calls : i > 1 => calls[i].op \in MainOps
      /\ replies[1].code # 0 =>
            /\ Len(calls) = 1
            /\ replies[1].code = 404 =>
                  (Returned /\ result.data = None /\ ResultText = NotFoundText)
            /\ replies[1].code \in {401, 403} =>
                  (Returned /\ result.data = None /\ ResultText = UnauthorizedMessage(tool))
            /\ replies[1].code \notin {404, 401, 403} => Propagated
      /\ replies[1].code = 0 =>
            /\ Len(calls) = 2
            /\ ZoneSent(calls[2]) =
                 {IF TruthyStr(replies[1].timeZone) THEN Get(replies[1].timeZone)
                  ELSE "UTC"}

\* A create_event whose lookup fails with 404: no insert, the not-found text.
C14_Witness ==
    /\ Done
    /\ tool = "create_event"
    /\ Len(calls) = 1
    /\ calls[1].op = "calendars.get"
    /\ replies[1].code = 404
    /\ Returned

(***************************************************************************)
(* C15.  The patch body update_event sends holds exactly the fields among  *)
(* summary, description, start, end, attendees that are present in the     *)
(* input, each with the input's value, and no others; the provider merging *)
(* the patch, every field of a held event that is not present in the input *)
(* has its previous value after the update.                                *)
(***************************************************************************)
EventFields == {"summary", "description", "start", "end", "attendees"}

\* The fields of the input that are present.
GivenFields(input) == {f \in EventFields : IsSome(input[f])}

\* The value the patch body is to carry for a present field.
GivenValue(input, f, body) ==
    CASE f \in {"start", "end"} -> body[f].dateTime = Get(input[f])
      [] f = "attendees" ->
           body[f] = [i \in DOMAIN Get(input[f]) |-> [email |-> Get(input[f])[i]]]
      [] OTHER -> body[f] = Get(input[f])

C15_PatchCarriesGivenFields ==
    [][(Idle /\ tool' \in UpdateTools /\ calls' # <<>>
          /\ calls'[Len(calls')].op = "events.patch") =>
         LET body == calls'[Len(calls')].requestBody
         IN  /\ DOMAIN body = GivenFields(req')
             /\ \A f \in GivenFields(req') : GivenValue(req', f, body)
             /\ \A e \in EventIds :
                   events[e] # NoEvent =>
                     /\ events'[e] # NoEvent
                     /\ \A f \in EventFields \ GivenFields(req') :
                           events'[e][f] = events[e][f]]_vars

\* A successful update of the summary alone, to the empty string, of an
\* event that has attendees: they are still there.
C15_Witness ==
    /\ Done
    /\ tool = "update_event"
    /\ GivenFields(req) = {"summary"}
    /\ req.summary = Some("")
    /\ Len(calls) = 1
    /\ replies[1].code = 0
    /\ events["e1"] # NoEvent
    /\ events["e1"].summary = ""
    /\ events["e1"].attendees # <<>>

(***************************************************************************)
(* Vocabulary of the list_events window properties.                        *)
(***************************************************************************)
\* A finished list_events call that queried the provider for events.
ListQueried ==
    /\ Done
    /\ tool = "list_events"
    /\ calls # <<>>
    /\ calls[Len(calls)].op = "events.list"

\* The window it asked for.
QueriedMin == Get(calls[Len(calls)].timeMin)
QueriedMax == Get(calls[Len(calls)].timeMax)

(***************************************************************************)
(* C16 as stated.  list_events with neither start nor end queries the      *)
(* provider with timeMin = the instant of the call and timeMax = timeMin + *)
(* exactly 30 * 24 hours; a supplied start or end is passed through        *)
(* unchanged.  A start or end supplied as the empty string is replaced by  *)
(* the default bound.                                                      *)
(***************************************************************************)
C16_DefaultWindowOrGiven ==
    ListQueried =>
      /\ (req.start = None /\ req.end = None) =>
            /\ DateParse(QueriedMin) = now
            /\ DateParse(QueriedMax) = DateParse(QueriedMin) + 30 * 24
      /\ IsSome(req.start) => QueriedMin = Get(req.start)
      /\ IsSome(req.end) => QueriedMax = Get(req.end)

(***************************************************************************)
(* C16 as amended.  list_events with neither start nor end, or with them   *)
(* empty, queries the provider with timeMin = the instant of the call and  *)
(* timeMax = timeMin + exactly 30 * 24 hours; a non-empty supplied start   *)
(* or end is passed through unchanged.                                     *)
(***************************************************************************)
C16_DefaultWindowOrNonEmpty ==
    ListQueried =>
      /\ (~TruthyStr(req.start) /\ ~TruthyStr(req.end)) =>
            /\ DateParse(QueriedMin) = now
            /\ DateParse(QueriedMin) # NaN
            /\ DateParse(QueriedMax) = DateParse(QueriedMin) + 30 * 24
      /\ TruthyStr(req.start) => QueriedMin = Get(req.start)
      /\ TruthyStr(req.end) => QueriedMax = Get(req.end)

\* A call at instant 9 without start and end, answered by the provider.
C16_Witness ==
    /\ ListQueried
    /\ req.start = None /\ req.end = None
    /\ now = 9
    /\ QueriedMin = "2025-01-01T09:00:00.000Z"
    /\ QueriedMax = "2025-01-31T09:00:00.000Z"
    /\ replies[Len(replies)].code = 0

(***************************************************************************)
(* C17.  delete_event is idempotent in effect.  A successful delete_event  *)
(* leaves the provider without the event; a delete_event of an event the   *)
(* provider does not hold (so also the second of two deletes of the same   *)
(* calendarId / eventId) leaves the provider's events unchanged, and when  *)
(* the provider answers it with 404 it returns the not-found text envelope *)
(* without data and raises no error.                                       *)
(***************************************************************************)
\* The step is a delete_event call that reached the provider.
DeleteStep ==
    /\ Idle
    /\ tool' = "delete_event"
    /\ calls' # <<>>

ReachedRegistry == result.kind \in {"invalid", "returned", "thrown"} \/ calls # <<>>

C18_OnlyAuthorizedCallsRun ==
    Done =>
      /\ IsSome(auth) <=> (IsSome(secret) /\ Get(secret) # "" /\ bearer = secret)
      /\ IsSome(auth) => Get(auth).token = bearer
      /\ ReachedRegistry => IsSome(auth)
      /\ ~IsSome(auth) => (Refused /\ NoProviderCall /\ ~ReachedRegistry)

\* A delete_event with a wrong token against a deployment whose secret is
\* set: refused, and the event it names is still there.
C18_Witness ==
    /\ Done
    /\ tool = "delete_event"
    /\ secret = Some("s3cret")
    /\ bearer = Some("guess")
    /\ req.eventId = "e1"
    /\ events["e1"] # NoEvent
    /\ Refused
    /\ NoProviderCall

\* A call without token against a deployment without secret: refused.
C18_WitnessUnset ==
    /\ Done
    /\ secret = None
    /\ bearer = None
    /\ Refused

(***************************************************************************)
(* C19.  edit_event is a pure alias of update_event.  In every state of    *)
(* the provider and for every input, the two names come to the same thing: *)
(* the same validation outcome and, over the provider's possible answers,  *)
(* the same provider calls, the same response and the same events at the   *)
(* provider afterwards.  A finished call of either name was rejected by    *)
(* validation exactly when update_event's registered shape refuses its     *)
(* input.                                                                  *)
(***************************************************************************)
\* What a call of the tool registered under name can come to.
OutcomesOf(name, input, store) ==
    IF RegisteredParams(name, input)
    THEN RegisteredHandler(name, input, store, 0)
    ELSE {Run(<<>>, <<>>, Invalid(InvalidArguments), store)}

C19_EditIsUpdate ==
    /\ Idle =>
         \A input \in UpdateEventInputs :
            OutcomesOf("edit_event", input, events)
              = OutcomesOf("update_event", input, events)
    /\ (Done /\ tool \in UpdateTools /\ ~Refused) =>
         (Rejected <=> ~RegisteredParams("update_event", req))

\* An edit_event call that looked the zone up and patched the event.
C19_Witness ==
    /\ Done
    /\ tool = "edit_event"
    /\ Len(calls) = 2
    /\ calls[2].op = "events.patch"
    /\ replies[2].code = 0
    /\ Returned

(***************************************************************************)
(* C20.  list_calendars issues exactly one provider call, a                *)
(* calendarList.list asking for neither hidden nor deleted calendars.      *)
(* When the provider returns no calendars the envelope has a non-empty     *)
(* text and data.calendars = []; otherwise data.calendars has the length   *)
(* and the order of the provider's sequence, entry i being the             *)
(* CalendarListEntry of provider item i.                                   *)
(***************************************************************************)
\* A text field of a provider item that is there and not empty.
Filled(o) == o # None /\ Len(o[1]) > 0

\* The CalendarListEntry of a provider item: id and summary always (the
\* summary of an untitled calendar says so), the other fields when the
\* item has them filled, primary when the item is the primary calendar.
EntryOf(item) ==
    [id |-> IF Filled(item.id) THEN item.id[1] ELSE "",
     summary |-> IF Filled(item.summary) THEN item.summary[1] ELSE "Untitled Calendar",
     description |-> IF Filled(item.description) THEN item.description ELSE None,
     primary |-> IF item.primary # None /\ item.primary[1] THEN item.primary ELSE None,
     accessRole |-> IF Filled(item.accessRole) THEN item.accessRole ELSE None,
     timeZone |-> IF Filled(item.timeZone) THEN item.timeZone ELSE None]

\* A text with something in it.
NonEmptyText(text) == \E i \in DOMAIN text : text[i] # ""

C20_CalendarsAsProvided ==
    (Done /\ tool = "list_calendars" /\ ~Refused) =>
      /\ Len(calls) = 1
      /\ calls[1] = [op |-> "calendarList.list", showHidden |-> FALSE, showDeleted |-> FALSE]
      /\ replies[1].code = 0 =>
            /\ Returned
            /\ NonEmptyText(ResultText)
            /\ IsSome(result.data)
            /\ Len(Get(result.data).calendars) = Len(replies[1].items)
            /\ \A i \in DOMAIN replies[1].items :
                  Get(result.data).calendars[i] = EntryOf(replies[1].items[i])

\* Two calendars, the one without id and summary first: data keeps the order.
C20_Witness ==
    /\ Done
    /\ tool = "list_calendars"
    /\ Len(replies) = 1
    /\ replies[1].code = 0
    /\ Len(replies[1].items) = 2
    /\ replies[1].items[1].id = None
    /\ Get(result.data).calendars[1].id = ""
    /\ Get(result.data).calendars[2].id = "primary"

\* No calendars: the explanatory text and an empty data.calendars.
C20_WitnessEmpty ==
    /\ Done
    /\ tool = "list_calendars"
    /\ Len(replies) = 1
    /\ replies[1].code = 0
    /\ replies[1].items = <<>>
    /\ ResultText = <<"No calendars found in your account.">>
    /\ Get(result.data).calendars = <<>>

(***************************************************************************)
(* C21.  get_current_time issues no provider call and never fails: every   *)
(* call that passed the credential check returns an envelope, and that     *)
(* envelope has data whose iso is the instant of the call (UTC-qualified   *)
(* ISO-8601) and whose timeZone is not empty.                              *)
(***************************************************************************)
C21_CurrentTimeData ==
    (Done /\ tool = "get_current_time" /\ ~Refused) =>
      /\ NoProviderCall
      /\ Returned
      /\ IsSome(result.data)
      /\ Get(result.data).iso = ToISO(now)
      /\ DateParse(Get(result.data).iso) = now
      /\ Get(result.data).timeZone # ""

(***************************************************************************)
(* C22.  No provider call is retried.  Within one invocation every         *)
(* provider call is made once and has one answer, there are at most two    *)
(* calls (at most one timezone lookup and at most one main call), and a    *)
(* failed call is the last call of the invocation, which then ends in a    *)
(* classified envelope without data or in a propagated error.              *)
(***************************************************************************)
C22_NoRetry ==
    Done =>
      /\ Len(replies) = Len(calls)
      /\ Len(calls) <= 2
      /\ Cardinality(Lookups) <= 1
      /\ Cardinality(DOMAIN calls \ Lookups) <= 1
      /\ \A i, j \in DOMAIN calls : calls[i] = calls[j] => i = j
      /\ \A i \in DOMAIN replies :
            replies[i].code # 0 =>
              /\ i = Len(calls)
              /\ \/ Propagated
                 \/ /\ Returned
                    /\ result.data = None
                    /\ Classified(tool, replies[i].code)

\* A lookup that succeeded followed by a main call that failed with 500:
\* two calls, and the error is propagated.
C22_Witness ==
    /\ Done
    /\ Len(calls) = 2
    /\ calls[1].op = "calendars.get"
    /\ replies[1].code = 0
    /\ calls[2].op = "events.insert"
    /\ replies[2].code = 500
    /\ Propagated

\* A lookup that failed with 500: it stays the only call.
C22_WitnessLookup ==
    /\ Done
    /\ tool = "list_events"
    /\ Len(calls) = 1
    /\ calls[1].op = "calendars.get"
    /\ replies[1].code = 500
    /\ Propagated

(***************************************************************************)
(* C23.  Every envelope a tool returns, on whatever path, has a content    *)
(* sequence with at least one text block whose text is not empty.  A       *)
(* list_events, search_events or list_calendars call to which the provider *)
(* answers with no items renders its "No ... found" sentence.              *)
(***************************************************************************)
\* The listing the provider answered with no items.
ZeroResult ==
    /\ Done
    /\ tool \in {"list_events", "search_events", "list_calendars"}
    /\ calls # <<>>
    /\ calls[Len(calls)].op \in {"events.list", "calendarList.list"}
    /\ replies[Len(replies)].code = 0
    /\ replies[Len(replies)].items = <<>>

C23_TextNeverEmpty ==
    /\ (Done /\ Returned) =>
          \E i \in DOMAIN result.content :
             /\ result.content[i].type = "text"
             /\ NonEmptyText(result.content[i].text)
    /\ ZeroResult =>
          /\ Returned
          /\ ResultText =
               CASE tool = "list_events" ->
                      <<"No events found in calendar '", resolveCalendarId(req.calendarId),
                        "' from ", QueriedMin, " to ", QueriedMax>>
                 [] tool = "search_events" ->
                      <<"No events found matching query \"", req.query,
                        "\" in calendar '", resolveCalendarId(req.calendarId), "'">>
                 [] tool = "list_calendars" ->
                      <<"No calendars found in your account.">>

\* A search that found nothing in the default calendar.
C23_Witness ==
    /\ ZeroResult
    /\ tool = "search_events"
    /\ req.calendarId = None
    /\ Returned
    /\ ResultText[1] = "No events found matching query \""

\* A not-found envelope of delete_event.
C23_WitnessNotFound ==
    /\ Done
    /\ tool = "delete_event"
    /\ FailedWith(404)
    /\ Returned
    /\ NonEmptyText(ResultText)

(***************************************************************************)
(* C24.  When a provider call of list_events, search_events, create_event, *)
(* update_event or delete_event fails with 404, the not-found text names   *)
(* the calendar id that was sent to the provider ("primary" when           *)
(* calendarId was omitted or empty), together with the event id for        *)
(* update_event and delete_event.                                          *)
(***************************************************************************)
EventsTools ==
    {"list_events", "search_events", "create_event", "update_event", "edit_event",
     "delete_event"}

C24_NotFoundNamesSentCalendar ==
    (Done /\ tool \in EventsTools /\ FailedWith(404)) =>
      LET sent == calls[Len(calls)].calendarId
      IN  /\ Returned
          /\ sent = resolveCalendarId(req.calendarId)
          /\ ResultText =
               IF tool \in ZonedTools
               THEN <<"Calendar not found: ", sent>>
               ELSE <<"Event or calendar not found: ", req.eventId, " in ", sent>>

(***************************************************************************)
(* C25.  In list_events, when end is omitted the upper bound of the        *)
(* queried window is start + 30 days, start being the supplied start or    *)
(* else the instant of the call; so a call that supplied only start        *)
(* queries a window with timeMin < timeMax.                                *)
(***************************************************************************)
C25_DefaultEndFollowsStart ==
    (ListQueried /\ req.end = None /\ (req.start = None \/ TruthyStr(req.start))) =>
      LET from == IF TruthyStr(req.start) THEN DateParse(Get(req.start)) ELSE now
      IN  /\ DateParse(QueriedMax) = from + 30 * 24
          /\ TruthyStr(req.start) => DateLess(QueriedMin, QueriedMax)

\* The consequence alone: only start supplied, and the window is not empty.
C25_WindowOrdered ==
    (ListQueried /\ req.end = None /\ TruthyStr(req.start)) =>
      DateLess(QueriedMin, QueriedMax)

(***************************************************************************)
(* C26.  Every update_event call whose input passes the at-least-one-field *)
(* rule sends a patch body that is not empty; in particular a call whose   *)
(* only optional field is timeZone does not end in an events.patch with an *)
(* empty body that is reported as "Event updated successfully".            *)
(***************************************************************************)
\* The call got as far as its events.patch.
Patched ==
    /\ Done
    /\ tool \in UpdateTools
    /\ calls # <<>>
    /\ calls[Len(calls)].op = "events.patch"

\* The body of that events.patch carries no field.
EmptyPatch == DOMAIN calls[Len(calls)].requestBody = {}

\* timeZone is the only optional field of the input.
OnlyTimeZone == {f \in UpdateFields : IsSome(req[f])} = {"timeZone"}

C26_PatchBodyNotEmpty ==
    /\ (Patched /\ updateEventAnyField(req)) => ~EmptyPatch
    /\ (Patched /\ OnlyTimeZone) =>
          ~(/\ EmptyPatch
            /\ Returned
            /\ ResultText[1] = "Event updated successfully: \"")

\* The case the claim rules out: a timeZone-only call on a held event, whose
\* empty patch the provider accepted and the tool reported as an update.
C26_EmptyPatchReported ==
    /\ Patched
    /\ OnlyTimeZone
    /\ EmptyPatch
    /\ replies[Len(replies)].code = 0
    /\ Returned
    /\ ResultText[1] = "Event updated successfully: \""

(***************************************************************************)
(* C27.  The events the provider holds change only through create_event    *)
(* (one event more), update_event, also under its name edit_event (one     *)
(* held event modified), and delete_event (one held event removed), and    *)
(* only in a call that returned after all its provider calls succeeded.    *)
(* list_calendars, list_events, search_events, get_freebusy and            *)
(* get_current_time, and every call ending in a validation failure, a      *)
(* refusal, or a classified or propagated provider error, leave them       *)
(* unchanged.                                                              *)
(***************************************************************************)
\* The events a step changed.
Changed == {e \in DOMAIN events : events'[e] # events[e]}

C27_OnlyWritersChangeEvents ==
    [][(events' # events) =>
         /\ Idle
         /\ tool' \in {"create_event", "update_event", "edit_event", "delete_event"}
         /\ result'.kind = "returned"
         /\ calls' # <<>>
         /\ \A i \in DOMAIN replies' : replies'[i].code = 0
         /\ Cardinality(Changed) = 1
         /\ \A e \in Changed :
               CASE tool' = "create_event" ->
                      /\ events[e] = NoEvent
                      /\ events'[e] # NoEvent
                      /\ calls'[Len(calls')].op = "events.insert"
                 [] tool' \in UpdateTools ->
                      /\ events[e] # NoEvent
                      /\ events'[e] # NoEvent
                      /\ e = req'.eventId
                      /\ calls'[Len(calls')].op = "events.patch"
                 [] tool' = "delete_event" ->
                      /\ events[e] # NoEvent
                      /\ events'[e] = NoEvent
                      /\ e = req'.eventId
                      /\ calls'[Len(calls')].op = "events.delete"]_vars

\* A create_event that returned: the provider now holds the new event.
C27_Witness ==
    /\ Done
    /\ tool = "create_event"
    /\ Returned
    /\ calls[Len(calls)].op = "events.insert"
    /\ replies[Len(replies)].code = 0
    /\ replies[Len(replies)].data.id = "e1"
    /\ events["e1"] # NoEvent

\* An update_event of a held event whose patch failed: the event is as held.
C27_WitnessFailed ==
    /\ Done
    /\ tool = "update_event"
    /\ calls # <<>>
    /\ calls[Len(calls)].op = "events.patch"
    /\ replies[Len(replies)].code = 500
    /\ Propagated
    /\ events["e1"] # NoEvent

====
